---------------------------- MODULE Spec2Model ----------------------------
(***************************************************************************)
(* A model of r0t0snake (src/src/main.rs): the Direction arithmetic, the   *)
(* input latches, the snake, the food, the world's collision resolver and  *)
(* the logic tick of the game loop.                                        *)
(*                                                                         *)
(* Three specifications are given.  SpecApi lets the operations of Snake   *)
(* be called in any order, one call per step.  SpecWorld does the same     *)
(* with Apple::update among them, in a world built on any of a few levels. *)
(* Spec is the game loop of main: one step is one logic tick (poll the     *)
(* events, apply the turn requests, Snake::update, Apple::update,          *)
(* Input::tick).                                                           *)
(***************************************************************************)
EXTENDS Integers, Sequences, FiniteSets, TLC

VARIABLES world, state, input, last, eaten, calls, grows, updates, ticks,
          wanted, closed

vars ==
    <<world, state, input, last, eaten, calls, grows, updates, ticks,
      wanted, closed>>

(***************************************************************************)
(* Bounds of the model.                                                    *)
(***************************************************************************)
\* Snake.period.  Snake::new sets 24 (main.rs:199); the model runs the same
\* timer with a shorter period so that several moves fit in the state space.
Period == 1

\* Logic ticks explored while the game is in Play (Spec); the ticks of a
\* game that is over are not bounded.
MaxTicks == 6

\* Calls of Snake::update explored (SpecApi).
MaxUpdates == 10

\* Calls of Snake::update explored (SpecWorld).
MaxWorldUpdates == 4

\* The sampler of Apple::gen_pos draws every interior cell; the model explores
\* the draws that land within FoodReach steps of the snake's head.
FoodReach == 1

\* Keys held down at the same time.
MaxHeld == 1

\* Calls of Snake::grow made directly (outside Snake::update), and the
\* largest argument of such a call.
MaxGrows == 1

MaxGrowArg == 1

(***************************************************************************)
(* Option<T>: None, Some(v).                                               *)
(***************************************************************************)
None == <<>>

Some(v) == <<v>>

(***************************************************************************)
(* u32 arithmetic of the Direction conversions.  A u32 is kept as two      *)
(* 16-bit halves, value = hi * 2^16 + lo, so that the wrap at 2^32 is      *)
(* computed and not assumed.  Coordinates and the timer are u32 too, but   *)
(* stay far from either end of the range and are kept as plain numbers.    *)
(***************************************************************************)
Half == 2^16

U32Of(n) == [hi |-> n \div Half, lo |-> n % Half]

\* u32::overflowing_add(a, b).0
overflowing_add(a, b) ==
    LET lo == a.lo + b.lo
    IN  [hi |-> (a.hi + b.hi + (lo \div Half)) % Half, lo |-> lo % Half]

\* u32::overflowing_sub(a, b).0
overflowing_sub(a, b) ==
    LET lo == a.lo - b.lo
        borrow == IF lo < 0 THEN 1 ELSE 0
    IN  [hi |-> (a.hi - b.hi - borrow) % Half, lo |-> lo % Half]

\* a % m
U32Rem(a, m) == (((a.hi % m) * (Half % m)) + (a.lo % m)) % m

(***************************************************************************)
(* Direction.                                                              *)
(***************************************************************************)
Direction == {"Up", "Right", "Down", "Left"}

\* impl From<u32> for Direction
DirectionFromU32(x) ==
    CASE U32Rem(x, 4) = 0 -> "Up"
      [] U32Rem(x, 4) = 1 -> "Right"
      [] U32Rem(x, 4) = 2 -> "Down"
      [] U32Rem(x, 4) = 3 -> "Left"

\* impl From<Direction> for u32
U32FromDirection(d) ==
    CASE d = "Up" -> U32Of(0)
      [] d = "Right" -> U32Of(1)
      [] d = "Down" -> U32Of(2)
      [] d = "Left" -> U32Of(3)

cw(self) == DirectionFromU32(overflowing_add(U32FromDirection(self), U32Of(1)))

ccw_saturating(self) ==
    DirectionFromU32(IF U32FromDirection(self) = U32Of(0) THEN U32Of(0)
                     ELSE overflowing_sub(U32FromDirection(self), U32Of(1)))

ccw(self) == DirectionFromU32(overflowing_sub(U32FromDirection(self), U32Of(1)))

is_opposite_same(self, direction) ==
    LET d1 == U32FromDirection(self)
        d2 == U32FromDirection(direction)
        delta_dir == DirectionFromU32(overflowing_sub(d1, d2))
    IN  delta_dir = "Up"

is_opposite(self, direction) ==
    LET d1 == U32FromDirection(self)
        d2 == U32FromDirection(direction)
        delta_dir == DirectionFromU32(overflowing_sub(d1, d2))
    IN  delta_dir = "Down"

(***************************************************************************)
(* LevelBounds.                                                            *)
(***************************************************************************)
LevelBounds_new(x, y, width, height) ==
    [x |-> x, y |-> y, width |-> width, height |-> height]

is_inside_closed(self, x, y) ==
    /\ x >= self.x
    /\ x <= self.x + self.width - 1
    /\ y >= self.y
    /\ y <= self.y + self.height - 1

is_inside(self, x, y) ==
    /\ x > self.x
    /\ x < self.x + self.width - 1
    /\ y > self.y
    /\ y < self.y + self.height - 1

(***************************************************************************)
(* Snake.                                                                  *)
(***************************************************************************)
Snake_new ==
    [body |-> << <<10, 3>>, <<9, 3>>, <<8, 3>>, <<7, 3>>,
                 <<6, 3>>, <<5, 3>>, <<4, 3>>, <<3, 3>> >>,
     prev_direction |-> "Right",
     direction |-> "Right",
     period |-> Period,
     tick |-> 0,
     score |-> 0,
     dead |-> FALSE]

\* The first segment in iteration order that lies on (x, y) decides: index 0
\* is the head, every later index the tail.
RECURSIVE is_collision_from(_, _, _, _)
is_collision_from(body, i, x, y) ==
    IF i > Len(body) THEN None
    ELSE IF body[i] = <<x, y>>
         THEN (IF i = 1 THEN Some("Head") ELSE Some("Tail"))
         ELSE is_collision_from(body, i + 1, x, y)

is_collision_skip_last(self, x, y) ==
    is_collision_from(SubSeq(self.body, 1, Len(self.body) - 1), 1, x, y)

is_collision(self, x, y) == is_collision_from(self.body, 1, x, y)

RECURSIVE push_back_n(_, _, _)
push_back_n(body, back, n) ==
    IF n = 0 THEN body ELSE push_back_n(Append(body, back), back, n - 1)

grow_nothing(self, n) == self

grow_one_more(self, n) ==
    LET back == self.body[Len(self.body)]
    IN  [self EXCEPT !.body = push_back_n(@, back, n + 1)]

grow(self, n) ==
    LET back == self.body[Len(self.body)]
    IN  [self EXCEPT !.body = push_back_n(@, back, n)]

move_up_pending(self) ==
    IF ~is_opposite(self.direction, "Up")
    THEN [self EXCEPT !.direction = "Up"]
    ELSE self

move_up(self) ==
    IF ~is_opposite(self.prev_direction, "Up")
    THEN [self EXCEPT !.direction = "Up"]
    ELSE self

move_right(self) ==
    IF ~is_opposite(self.prev_direction, "Right")
    THEN [self EXCEPT !.direction = "Right"]
    ELSE self

move_down(self) ==
    IF ~is_opposite(self.prev_direction, "Down")
    THEN [self EXCEPT !.direction = "Down"]
    ELSE self

move_left_unchecked(self) == [self EXCEPT !.direction = "Left"]

move_left(self) ==
    IF ~is_opposite(self.prev_direction, "Left")
    THEN [self EXCEPT !.direction = "Left"]
    ELSE self

(***************************************************************************)
(* Apple, World.                                                           *)
(***************************************************************************)
Apple_new == [pos |-> None]

World_new(snake, level_bounds) ==
    [snake |-> snake, level_bounds |-> level_bounds, apple |-> Apple_new]

\* enum ObjectId
ObjectId == {"SnakeHead", "SnakeTail", "LevelBound", "Apple"}

check_collision_no_fallthrough(self, id, x, y) ==
    IF id # "LevelBound" /\ ~is_inside(self.level_bounds, x, y)
    THEN Some("LevelBound")
    ELSE LET snake_collision == is_collision(self.snake, x, y)
         IN  IF snake_collision # None
             THEN IF id # "SnakeHead" /\ snake_collision = Some("Head")
                  THEN Some("SnakeHead")
                  ELSE IF id # "SnakeTail" /\ snake_collision = Some("Tail")
                       THEN Some("SnakeTail")
                       ELSE None
             ELSE IF id # "Apple" /\ self.apple.pos = Some(<<x, y>>)
                  THEN Some("Apple")
                  ELSE None

check_collision_unguarded(self, id, x, y) ==
    IF id # "LevelBound" /\ ~is_inside(self.level_bounds, x, y)
    THEN Some("LevelBound")
    ELSE LET snake_collision == is_collision(self.snake, x, y)
         IN  IF snake_collision # None /\ id # "SnakeHead"
                /\ snake_collision = Some("Head")
             THEN Some("SnakeHead")
             ELSE IF snake_collision # None /\ id # "SnakeTail"
                     /\ snake_collision = Some("Tail")
                  THEN Some("SnakeTail")
                  ELSE IF self.apple.pos = Some(<<x, y>>)
                       THEN Some("Apple")
                       ELSE None

check_collision(self, id, x, y) ==
    IF id # "LevelBound" /\ ~is_inside(self.level_bounds, x, y)
    THEN Some("LevelBound")
    ELSE LET snake_collision == is_collision(self.snake, x, y)
         IN  IF snake_collision # None /\ id # "SnakeHead"
                /\ snake_collision = Some("Head")
             THEN Some("SnakeHead")
             ELSE IF snake_collision # None /\ id # "SnakeTail"
                     /\ snake_collision = Some("Tail")
                  THEN Some("SnakeTail")
                  ELSE IF id # "Apple" /\ self.apple.pos = Some(<<x, y>>)
                       THEN Some("Apple")
                       ELSE None

(***************************************************************************)
(* Snake::update.                                                          *)
(***************************************************************************)
TimerExpired_early(snake) == snake.tick >= snake.period

\* main.rs:271, read after the increment of line 270.
TimerExpired(snake) == snake.tick > snake.period

\* main.rs:276-281: the candidate head cell.
NewHead(head, direction) ==
    CASE direction = "Up" -> <<head[1], head[2] - 1>>
      [] direction = "Right" -> <<head[1] + 1, head[2]>>
      [] direction = "Down" -> <<head[1], head[2] + 1>>
      [] direction = "Left" -> <<head[1] - 1, head[2]>>

\* main.rs:274-283: what the candidate cell collides with.
MoveTarget(w) ==
    LET new == NewHead(w.snake.body[1], w.snake.direction)
    IN  check_collision(w, "SnakeHead", new[1], new[2])

Resolve_ignore_bound(w, object_id) ==
    IF object_id = Some("SnakeTail")
    THEN [w EXCEPT !.snake.dead = TRUE]
    ELSE IF object_id = Some("Apple")
         THEN [w EXCEPT !.snake = grow(@, 1)]
         ELSE w

\* main.rs:285-291.
Resolve(w, object_id) ==
    IF object_id = Some("LevelBound")
    THEN [w EXCEPT !.snake.dead = TRUE]
    ELSE IF object_id = Some("SnakeTail")
         THEN [w EXCEPT !.snake.dead = TRUE]
         ELSE IF object_id = Some("Apple")
              THEN [w EXCEPT !.snake = grow(@, 1)]
              ELSE w

push_front(body, p) == <<p>> \o body

pop_back(body) == SubSeq(body, 1, Len(body) - 1)

Advance_no_pop(w, new) ==
    [w EXCEPT !.snake.body = push_front(@, new),
              !.snake.prev_direction = w.snake.direction]

Advance_no_commit(w, new) ==
    [w EXCEPT !.snake.body = pop_back(push_front(@, new))]

\* main.rs:297-300.
Advance(w, new) ==
    [w EXCEPT !.snake.body = pop_back(push_front(@, new)),
              !.snake.prev_direction = w.snake.direction]

Snake_update(w) ==
    IF w.snake.dead THEN w
    ELSE LET w1 == [w EXCEPT !.snake.tick = @ + 1]
         IN  IF ~TimerExpired(w1.snake) THEN w1
             ELSE LET w2 == [w1 EXCEPT !.snake.tick = 0]
                      new == NewHead(w2.snake.body[1], w2.snake.direction)
                      w3 == Resolve(w2, MoveTarget(w2))
                  IN  IF w3.snake.dead THEN w3 ELSE Advance(w3, new)

(***************************************************************************)
(* Apple::gen_pos, Apple::update.  The sampler is an input: gen_pos is the *)
(* set of cells the rejection loop can return.                             *)
(***************************************************************************)
\* rng.gen_range(low, high): low inclusive, high exclusive.
gen_range(low, high) == low .. (high - 1)

Dist(a, b) == IF a >= b THEN a - b ELSE b - a

\* main.rs:368-369: the cells one iteration of the loop can draw.
RngDraws(snake, level_bounds) ==
    LET head == snake.body[1]
        xs == gen_range(level_bounds.x + 1, level_bounds.x + level_bounds.width - 1)
        ys == gen_range(level_bounds.y + 1, level_bounds.y + level_bounds.height - 1)
        near_x == xs \cap ((head[1] - FoodReach) .. (head[1] + FoodReach))
        near_y == ys \cap ((head[2] - FoodReach) .. (head[2] + FoodReach))
    IN  {c \in near_x \X near_y :
            Dist(c[1], head[1]) + Dist(c[2], head[2]) <= FoodReach}

gen_pos(snake, level_bounds) ==
    {c \in RngDraws(snake, level_bounds) : is_collision(snake, c[1], c[2]) = None}

\* main.rs:378-380.
Apple_place(w) ==
    IF w.apple.pos = None
    THEN {[w EXCEPT !.apple.pos = Some(c)] : c \in gen_pos(w.snake, w.level_bounds)}
    ELSE {w}

Apple_reroll_never(w) == {w}

\* main.rs:382-388.
Apple_reroll(w) ==
    IF w.apple.pos # None
    THEN LET p == w.apple.pos[1]
             object_id == check_collision(w, "Apple", p[1], p[2])
         IN  IF object_id = Some("SnakeHead")
             THEN {[w EXCEPT !.apple.pos = Some(c)] :
                      c \in gen_pos(w.snake, w.level_bounds)}
             ELSE {w}
    ELSE {w}

Apple_update(w) == UNION {Apple_reroll(w1) : w1 \in Apple_place(w)}

(***************************************************************************)
(* Latch, Input.                                                           *)
(***************************************************************************)
Latch_new == [prev |-> FALSE, curr |-> FALSE]

Latch_set(self, value) == [self EXCEPT !.curr = value]

front_edge(self) == self.curr /\ ~self.prev

Latch_tick_keep(self) == self

Latch_tick(self) == [self EXCEPT !.prev = self.curr]

Input_new ==
    [key_escape |-> Latch_new, key_enter |-> Latch_new, key_up |-> Latch_new,
     key_left |-> Latch_new, key_down |-> Latch_new, key_right |-> Latch_new]

Input_tick(self) ==
    [key_escape |-> Latch_tick(self.key_escape),
     key_enter |-> Latch_tick(self.key_enter),
     key_up |-> Latch_tick(self.key_up),
     key_left |-> Latch_tick(self.key_left),
     key_down |-> Latch_tick(self.key_down),
     key_right |-> Latch_tick(self.key_right)]

(***************************************************************************)
(* The event loop of main (main.rs:505-548).                               *)
(***************************************************************************)
Scancodes == {"Escape", "Return", "Up", "Left", "Down", "Right"}

Event(type, scancode) == [type |-> type, scancode |-> scancode]

\* The events the pump can hand out; "Other" is any event of the `_` arm.
Events ==
    {Event("Quit", "-"), Event("Other", "-")}
        \cup {Event(t, k) : t \in {"KeyDown", "KeyUp"}, k \in Scancodes}

\* The events polled in one logic tick: none, any single event, a press and
\* a release of one key in either order, or two keys pressed together.
EventBursts ==
    {<<>>}
        \cup {<<e>> : e \in Events}
        \cup {<<Event("KeyDown", k), Event("KeyUp", k)>> : k \in Scancodes}
        \cup {<<Event("KeyUp", k), Event("KeyDown", k)>> : k \in Scancodes}
        \cup {<<Event("KeyDown", k[1]), Event("KeyDown", k[2])>> :
                  k \in {q \in Scancodes \X Scancodes : q[1] # q[2]}}

SetKey(self, scancode, value) ==
    CASE scancode = "Escape" -> [self EXCEPT !.key_escape = Latch_set(@, value)]
      [] scancode = "Return" -> [self EXCEPT !.key_enter = Latch_set(@, value)]
      [] scancode = "Up" -> [self EXCEPT !.key_up = Latch_set(@, value)]
      [] scancode = "Left" -> [self EXCEPT !.key_left = Latch_set(@, value)]
      [] scancode = "Down" -> [self EXCEPT !.key_down = Latch_set(@, value)]
      [] scancode = "Right" -> [self EXCEPT !.key_right = Latch_set(@, value)]

\* One iteration of the for loop: the match on the event.
PollEvent(g, event) ==
    CASE event.type = "Quit" -> [g EXCEPT !.state = "Quit"]
      [] event.type = "KeyDown" -> [g EXCEPT !.input = SetKey(@, event.scancode, TRUE)]
      [] event.type = "KeyUp" -> [g EXCEPT !.input = SetKey(@, event.scancode, FALSE)]
      [] OTHER -> g

RECURSIVE PollEvents(_, _)
PollEvents(g, events) ==
    IF events = <<>> THEN g
    ELSE PollEvents(PollEvent(g, Head(events)), Tail(events))

LatchNames ==
    {"key_escape", "key_enter", "key_up", "key_left", "key_down", "key_right"}

Held(in) == {k \in LatchNames : in[k].curr}

(***************************************************************************)
(* The state after construction (main.rs:482-498).                         *)
(***************************************************************************)
NoCell == <<>>

Last(op, fired, cand, hit, edges) ==
    [op |-> op, fired |-> fired, cand |-> cand, hit |-> hit, edges |-> edges]

Init ==
    /\ world = World_new(Snake_new, LevelBounds_new(0, 0, 30, 20))
    /\ state = "Play"
    /\ input = Input_new
    /\ last = Last("new", FALSE, NoCell, None, {})
    /\ eaten = 0
    /\ calls = 0
    /\ grows = 0
    /\ updates = 0
    /\ ticks = 0
    /\ wanted = [heading |-> "Right", turns |-> 0, used |-> 0]
    /\ closed = FALSE

(***************************************************************************)
(* History kept beside the program state.  last names the operation of the *)
(* latest step; for a step that calls Snake::update it also tells whether  *)
(* the timer expired, the candidate cell and what the resolver answered,   *)
(* and for a logic tick the latches whose front_edge was true when read.   *)
(* eaten counts the moves onto the food cell, calls the calls of           *)
(* Snake::update on a live snake modulo period + 1, updates and ticks the  *)
(* calls of Snake::update (SpecApi) and the logic ticks begun in Play      *)
(* (Spec).                                                                 *)
(*                                                                         *)
(* wanted follows the turn requests as they are issued, without reading    *)
(* the snake's pending heading: heading is the latest request that was not *)
(* the reverse of the committed heading (Right before any request), turns  *)
(* counts, up to 2, the requests since the latest move attempt that        *)
(* replaced it by another heading, and used is the value turns had when    *)
(* the latest move was attempted.  closed tells whether the latest logic   *)
(* tick polled a window-close event.                                       *)
(***************************************************************************)
Reverse(d) ==
    CASE d = "Up" -> "Down"
      [] d = "Down" -> "Up"
      [] d = "Left" -> "Right"
      [] d = "Right" -> "Left"

\* A request for heading d while the committed heading is c.
Ask(wn, c, d) ==
    IF d = Reverse(c) \/ d = wn.heading THEN wn
    ELSE [wn EXCEPT !.heading = d, !.turns = IF @ = 0 THEN 1 ELSE 2]

RECURSIVE AskAll(_, _, _)
AskAll(wn, c, ds) ==
    IF ds = <<>> THEN wn ELSE AskAll(Ask(wn, c, Head(ds)), c, Tail(ds))

\* A call of Snake::update; fired tells whether it attempted a move.
Moved(wn, fired) ==
    IF fired THEN [wn EXCEPT !.used = wn.turns, !.turns = 0] ELSE wn

Fires(w) ==
    ~w.snake.dead /\ TimerExpired([w.snake EXCEPT !.tick = @ + 1])

UpdateLast(op, w, edges) ==
    IF Fires(w)
    THEN Last(op, TRUE, NewHead(w.snake.body[1], w.snake.direction),
              MoveTarget(w), edges)
    ELSE Last(op, FALSE, NoCell, None, edges)

EatsAt(w, w2) ==
    /\ ~w.snake.dead
    /\ w.snake.tick = w.snake.period
    /\ ~w2.snake.dead
    /\ w.apple.pos = Some(NewHead(w.snake.body[1], w.snake.direction))

NextCalls(w) ==
    IF w.snake.dead THEN calls ELSE (calls + 1) % (w.snake.period + 1)

(***************************************************************************)
(* SpecApi: the operations of Snake, called in any order.                  *)
(***************************************************************************)
ApiTurn(op, snake2) ==
    /\ world' = [world EXCEPT !.snake = snake2]
    /\ last' = Last(op, FALSE, NoCell, None, {})
    /\ UNCHANGED <<state, input, eaten, calls, grows, updates, ticks, closed>>

ApiMoveUp ==
    /\ ApiTurn("move_up", move_up(world.snake))
    /\ wanted' = Ask(wanted, world.snake.prev_direction, "Up")

ApiMoveRight ==
    /\ ApiTurn("move_right", move_right(world.snake))
    /\ wanted' = Ask(wanted, world.snake.prev_direction, "Right")

ApiMoveDown ==
    /\ ApiTurn("move_down", move_down(world.snake))
    /\ wanted' = Ask(wanted, world.snake.prev_direction, "Down")

ApiMoveLeft ==
    /\ ApiTurn("move_left", move_left(world.snake))
    /\ wanted' = Ask(wanted, world.snake.prev_direction, "Left")

ApiSnakeUpdate ==
    /\ updates < MaxUpdates
    /\ world' = Snake_update(world)
    /\ last' = UpdateLast("update", world, {})
    /\ eaten' = IF EatsAt(world, world') THEN eaten + 1 ELSE eaten
    /\ calls' = NextCalls(world)
    /\ updates' = updates + 1
    /\ wanted' = Moved(wanted, Fires(world))
    /\ UNCHANGED <<state, input, grows, ticks, closed>>

ApiGrow ==
    /\ grows < MaxGrows
    /\ \E n \in 0 .. MaxGrowArg :
          /\ world' = [world EXCEPT !.snake = grow(@, n)]
          /\ last' = Last("grow", FALSE, NoCell, None, {})
    /\ grows' = grows + 1
    /\ UNCHANGED <<state, input, eaten, calls, updates, ticks, wanted, closed>>

NextApi ==
    \/ ApiMoveUp
    \/ ApiMoveRight
    \/ ApiMoveDown
    \/ ApiMoveLeft
    \/ ApiSnakeUpdate
    \/ ApiGrow

SpecApi == Init /\ [][NextApi]_vars

(***************************************************************************)
(* SpecWorld: the operations of Snake and Apple::update, called in any     *)
(* order on World::new(Snake::new(), level).  main builds the level        *)
(* LevelBounds::new(0, 0, 30, 20); the second level is the smallest one    *)
(* whose inside holds the snake of Snake::new and one more cell, so that   *)
(* a snake as long as the level is large is within reach.                  *)
(***************************************************************************)
Levels == {LevelBounds_new(0, 0, 30, 20), LevelBounds_new(2, 2, 11, 3)}

InitWorld ==
    /\ \E level_bounds \in Levels : world = World_new(Snake_new, level_bounds)
    /\ state = "Play"
    /\ input = Input_new
    /\ last = Last("new", FALSE, NoCell, None, {})
    /\ eaten = 0
    /\ calls = 0
    /\ grows = 0
    /\ updates = 0
    /\ ticks = 0
    /\ wanted = [heading |-> "Right", turns |-> 0, used |-> 0]
    /\ closed = FALSE

WorldSnakeUpdate == updates < MaxWorldUpdates /\ ApiSnakeUpdate

WorldAppleUpdate ==
    /\ world' \in Apple_update(world)
    /\ last' = Last("apple_update", FALSE, NoCell, None, {})
    /\ UNCHANGED <<state, input, eaten, calls, grows, updates, ticks, wanted,
                   closed>>

NextWorld ==
    \/ ApiMoveUp
    \/ ApiMoveRight
    \/ ApiMoveDown
    \/ ApiMoveLeft
    \/ WorldSnakeUpdate
    \/ WorldAppleUpdate

SpecWorld == InitWorld /\ [][NextWorld]_vars

(***************************************************************************)
(* Spec: the game loop.  One step is one logic tick (main.rs:502-577).     *)
(***************************************************************************)
\* main.rs:551-562: the turn requests of the keys pressed in this tick.
Turns(snake, in) ==
    LET s1 == IF front_edge(in.key_up) THEN move_up(snake) ELSE snake
        s2 == IF front_edge(in.key_right) THEN move_right(s1) ELSE s1
        s3 == IF front_edge(in.key_down) THEN move_down(s2) ELSE s2
    IN  IF front_edge(in.key_left) THEN move_left(s3) ELSE s3

Edges(in) == {k \in LatchNames : front_edge(in[k])}

\* The headings requested in a Play tick, in the order they are issued.
Asked(in) ==
    (IF front_edge(in.key_up) THEN <<"Up">> ELSE <<>>)
        \o (IF front_edge(in.key_right) THEN <<"Right">> ELSE <<>>)
        \o (IF front_edge(in.key_down) THEN <<"Down">> ELSE <<>>)
        \o (IF front_edge(in.key_left) THEN <<"Left">> ELSE <<>>)

\* main.rs:550-569: the Play arm.
PlayTick(in) ==
    LET w1 == [world EXCEPT !.snake = Turns(@, in)]
        w2 == Snake_update(w1)
    IN  /\ IF w2.snake.dead
           THEN world' = w2 /\ state' = "GameOver"
           ELSE world' \in Apple_update(w2) /\ state' = "Play"
        /\ last' = UpdateLast("tick", w1, Edges(in))
        /\ eaten' = IF EatsAt(w1, w2) THEN eaten + 1 ELSE eaten
        /\ calls' = NextCalls(w1)
        /\ wanted' =
               Moved(AskAll(wanted, world.snake.prev_direction, Asked(in)),
                     Fires(w1))

GameOverTick_held(in) ==
    /\ state' = IF in.key_escape.curr THEN "Quit" ELSE "GameOver"
    /\ last' = Last("tick", FALSE, NoCell, None, Edges(in))
    /\ UNCHANGED <<world, eaten, calls, wanted>>

\* main.rs:570-574: the GameOver arm.
GameOverTick(in) ==
    /\ state' = IF front_edge(in.key_escape) THEN "Quit" ELSE "GameOver"
    /\ last' = Last("tick", FALSE, NoCell, None, Edges(in))
    /\ UNCHANGED <<world, eaten, calls, wanted>>

\* Neither arm: Quit was polled (Menu and Pause are never assigned).
IdleTick(g) ==
    /\ state' = g.state
    /\ last' = Last("tick", FALSE, NoCell, None, Edges(g.input))
    /\ UNCHANGED <<world, eaten, calls, wanted>>

LogicTick(events) ==
    LET g == PollEvents([state |-> state, input |-> input], events)
    IN  /\ state # "Quit"
        /\ state = "Play" => ticks < MaxTicks
        /\ Cardinality(Held(g.input)) <= MaxHeld
        /\ CASE g.state = "Play" -> PlayTick(g.input)
             [] g.state = "GameOver" -> GameOverTick(g.input)
             [] OTHER -> IdleTick(g)
        /\ input' = Input_tick(g.input)
        /\ ticks' = IF state = "Play" THEN ticks + 1 ELSE ticks
        /\ closed' = (\E i \in 1 .. Len(events) : events[i].type = "Quit")
        /\ UNCHANGED <<grows, updates>>

Next == \E events \in EventBursts : LogicTick(events)

Spec == Init /\ [][Next]_vars

(***************************************************************************)
(* The vocabulary of the properties, stated on cells and headings and not  *)
(* through the operators above.                                            *)
(***************************************************************************)
\* The cell one step from p in heading d.
Ahead(p, d) ==
    CASE d = "Up" -> <<p[1], p[2] - 1>>
      [] d = "Down" -> <<p[1], p[2] + 1>>
      [] d = "Left" -> <<p[1] - 1, p[2]>>
      [] d = "Right" -> <<p[1] + 1, p[2]>>

\* c is no wall cell and lies within the walls of the level.
StrictlyInside(lb, c) ==
    /\ lb.x < c[1] /\ c[1] < lb.x + lb.width - 1
    /\ lb.y < c[2] /\ c[2] < lb.y + lb.height - 1

Cells(body) == {body[i] : i \in 1 .. Len(body)}

BehindHead(body) == {body[i] : i \in 2 .. Len(body)}

TurnOf(d) ==
    CASE d = "Up" -> "move_up"
      [] d = "Right" -> "move_right"
      [] d = "Down" -> "move_down"
      [] d = "Left" -> "move_left"

\* The step is a call of Snake::update whose timer expired.
MoveFiresApi == last'.op = "update" /\ last'.fired

\* The step is a logic tick in which Snake::update ran and its timer expired.
MoveFiresTick == last'.op = "tick" /\ last'.fired

\* The candidate head cell of the move a step makes: one step from the head
\* in the pending heading Snake::update reads (it never assigns it).
Candidate == Ahead(world.snake.body[1], world'.snake.direction)

(***************************************************************************)
(* C1.  A turn request d on a snake whose committed heading is c leaves    *)
(* the pending heading as it was exactly when d is the reverse of c, and   *)
(* makes it d otherwise; no other field of the snake changes.              *)
(***************************************************************************)
C1_TurnRequest ==
    [][\A d \in Direction :
          last'.op = TurnOf(d) =>
              world'.snake =
                  [world.snake EXCEPT
                      !.direction =
                          IF d = Reverse(world.snake.prev_direction) THEN @ ELSE d]]_vars

\* A request for Down was made while the committed heading was Up and the
\* pending heading Left: it was rejected and Left is still pending.
C1_Witness ==
    /\ last.op = "move_down"
    /\ world.snake.prev_direction = "Up"
    /\ world.snake.direction = "Left"

(***************************************************************************)
(* C2.  A move whose candidate cell is not strictly inside the level marks *)
(* the snake dead and is not applied: the body and the committed heading   *)
(* are what they were before the call.                                     *)
(***************************************************************************)
C2_WallKills ==
    [][(MoveFiresApi /\ ~StrictlyInside(world.level_bounds, Candidate)) =>
          /\ world'.snake.dead
          /\ world'.snake.body = world.snake.body
          /\ world'.snake.prev_direction = world.snake.prev_direction]_vars

\* The snake went up from (10,3) and its third move aimed at the wall cell
\* (10,0).
C2_Witness ==
    /\ last.op = "update"
    /\ last.fired
    /\ last.cand = <<10, 0>>
    /\ world.snake.dead
    /\ world.snake.body[1] = <<10, 1>>

(***************************************************************************)
(* C3.  A move whose candidate cell holds a body segment other than the    *)
(* head, the last one included, marks the snake dead and leaves the body   *)
(* as it was.                                                              *)
(***************************************************************************)
C3_BodyKills ==
    [][(MoveFiresApi /\ Candidate \in BehindHead(world.snake.body)) =>
          /\ world'.snake.dead
          /\ world'.snake.body = world.snake.body]_vars

\* The head ran into the last segment of a body that never grew: the cell
\* this very move would have vacated.
C3_Witness ==
    /\ last.op = "update"
    /\ last.fired
    /\ grows = 0
    /\ world.snake.dead
    /\ Len(world.snake.body) = 8
    /\ last.cand = world.snake.body[8]
    /\ last.cand \notin {world.snake.body[i] : i \in 1 .. 7}

(***************************************************************************)
(* C4.  Dead is terminal: once the snake is dead no operation called on it *)
(* changes any of its fields.                                              *)
(***************************************************************************)
C4_DeadIsTerminal ==
    [][world.snake.dead => world'.snake = world.snake]_vars

(***************************************************************************)
(* C5.  A move onto the food cell (a cell strictly inside the level that   *)
(* holds no segment) keeps the snake alive and makes the body the food     *)
(* cell followed by the whole previous body: one segment longer, the last  *)
(* segment still on the cell the tail had before the move.                 *)
(***************************************************************************)
C5_EatGrows ==
    [][(/\ MoveFiresTick
        /\ world.apple.pos = Some(Candidate)
        /\ StrictlyInside(world.level_bounds, Candidate)
        /\ Candidate \notin Cells(world.snake.body)) =>
          /\ ~world'.snake.dead
          /\ world'.snake.body = <<Candidate>> \o world.snake.body
          /\ Len(world'.snake.body) = Len(world.snake.body) + 1]_vars

\* The first move went right onto food at (11,3): nine segments, the last
\* still on (3,3).
C5_Witness ==
    /\ last.op = "tick"
    /\ last.fired
    /\ last.hit = Some("Apple")
    /\ ~world.snake.dead
    /\ world.snake.body[1] = <<11, 3>>
    /\ Len(world.snake.body) = 9
    /\ world.snake.body[9] = <<3, 3>>

(***************************************************************************)
(* C6.  At the end of every logic tick that leaves the game in Play with   *)
(* a live snake, the food has a position, strictly inside the level and on *)
(* no segment of the snake, also in the tick in which food was eaten.      *)
(***************************************************************************)
C6_FoodValid ==
    (last.op = "tick" /\ state = "Play" /\ ~world.snake.dead) =>
        /\ world.apple.pos # None
        /\ StrictlyInside(world.level_bounds, world.apple.pos[1])
        /\ world.apple.pos[1] \notin Cells(world.snake.body)

\* The tick in which the head moved onto the food ends with food elsewhere.
C6_Witness ==
    /\ last.op = "tick"
    /\ last.hit = Some("Apple")
    /\ state = "Play"
    /\ world.apple.pos # None
    /\ world.apple.pos[1] # world.snake.body[1]

(***************************************************************************)
(* C7.  The score equals the number of food items eaten so far.            *)
(***************************************************************************)
C7_ScoreCountsFood == world.snake.score = eaten

(***************************************************************************)
(* C8.  A move onto a cell strictly inside the level that holds neither a  *)
(* segment nor the food makes the body the candidate cell followed by the  *)
(* previous body without its last segment, and commits the pending         *)
(* heading.  From the initial body heading Right the first such move       *)
(* gives (11,3) .. (4,3).                                                  *)
(***************************************************************************)
C8_PlainMove ==
    [][(/\ MoveFiresTick
        /\ StrictlyInside(world.level_bounds, Candidate)
        /\ Candidate \notin Cells(world.snake.body)
        /\ world.apple.pos # Some(Candidate)) =>
          /\ ~world'.snake.dead
          /\ world'.snake.body =
                 <<Candidate>> \o SubSeq(world.snake.body, 1, Len(world.snake.body) - 1)
          /\ Len(world'.snake.body) = Len(world.snake.body)
          /\ world'.snake.prev_direction = world'.snake.direction
          /\ (world.snake.body = Snake_new.body /\ world'.snake.direction = "Right" =>
                 world'.snake.body =
                     << <<11, 3>>, <<10, 3>>, <<9, 3>>, <<8, 3>>,
                        <<7, 3>>, <<6, 3>>, <<5, 3>>, <<4, 3>> >>)]_vars

\* The first move of the initial snake, food not ahead of it.
C8_Witness ==
    /\ last.op = "tick"
    /\ last.fired
    /\ last.hit = None
    /\ last.cand = <<11, 3>>
    /\ world.snake.body =
           << <<11, 3>>, <<10, 3>>, <<9, 3>>, <<8, 3>>,
              <<7, 3>>, <<6, 3>>, <<5, 3>>, <<4, 3>> >>

(***************************************************************************)
(* C9.  On a live snake every (period + 1)-th call of Snake::update,       *)
(* counted from creation or from the previous move attempt, resets the     *)
(* timer to 0 and attempts a move; each of the period calls in between     *)
(* only increments the timer.                                              *)
(***************************************************************************)
C9_MovePeriod ==
    [][(last'.op = "update" /\ ~world.snake.dead) =>
          IF calls' = 0
          THEN /\ world'.snake.tick = 0
               /\ \/ world'.snake.dead
                  \/ world'.snake.body[1] = Candidate
          ELSE /\ world'.snake.tick = world.snake.tick + 1
               /\ world'.snake.body = world.snake.body
               /\ world'.snake.prev_direction = world.snake.prev_direction
               /\ world'.snake.dead = world.snake.dead]_vars

\* The second move, made by call 2 * (period + 1).
C9_Witness ==
    /\ last.op = "update"
    /\ last.fired
    /\ calls = 0
    /\ updates = 2 * (world.snake.period + 1)
    /\ world.snake.tick = 0
    /\ ~world.snake.dead

(***************************************************************************)
(* C10.  In a logic tick front_edge of a key is true exactly when the key  *)
(* is set after this tick's events and was unset at the end of the tick    *)
(* before; a key held over consecutive ticks has it true in the first of   *)
(* them only.                                                              *)
(***************************************************************************)
C10_FrontEdge ==
    [][last'.op = "tick" =>
          \A k \in LatchNames :
              (k \in last'.edges) <=> (input'[k].curr /\ ~input[k].curr)]_vars

\* The Up key is held in a tick after the one that pressed it: no edge.
C10_Witness ==
    /\ last.op = "tick"
    /\ ticks >= 2
    /\ input.key_up.curr
    /\ "key_up" \notin last.edges
    /\ state = "Play"

(***************************************************************************)
(* C11.  Whatever turn requests are issued between two moves, the move     *)
(* that follows them aims one step from the head in the heading of the     *)
(* latest request that was not the reverse of the committed heading, or in *)
(* the heading that was pending before them when there was none; when the  *)
(* move is made that heading is committed.  The requests are not queued:   *)
(* an accepted request neither survives a later accepted one nor changes   *)
(* whether a later one is accepted.                                        *)
(***************************************************************************)
C11_LatestValidRequest ==
    [][MoveFiresApi =>
          /\ last'.cand = Ahead(world.snake.body[1], wanted.heading)
          /\ (~world'.snake.dead =>
                 /\ world'.snake.body[1] = Ahead(world.snake.body[1], wanted.heading)
                 /\ world'.snake.prev_direction = wanted.heading)]_vars

\* Heading Right, Down was requested and then Up, both accepted: the move
\* went up from (10,3), and Down was not kept for the move after it.
C11_Witness ==
    /\ last.op = "update"
    /\ last.fired
    /\ wanted.used = 2
    /\ wanted.heading = "Up"
    /\ world.snake.body[1] = <<10, 2>>
    /\ world.snake.body[2] = <<10, 3>>
    /\ world.snake.prev_direction = "Up"
    /\ world.snake.direction = "Up"

(***************************************************************************)
(* The cells asked about in C12 and C13: the cells up to two steps from    *)
(* the head in each coordinate, every cell of the body, the food cell and  *)
(* the four corner cells of the level.  Coordinates are unsigned.          *)
(***************************************************************************)
Probes(w) ==
    LET head == w.snake.body[1]
        lb == w.level_bounds
        around == {<<head[1] + dx, head[2] + dy>> : dx \in -2 .. 2, dy \in -2 .. 2}
        food == IF w.apple.pos = <<>> THEN {} ELSE {w.apple.pos[1]}
        corners == {lb.x, lb.x + lb.width - 1} \X {lb.y, lb.y + lb.height - 1}
    IN  {c \in around \cup Cells(w.snake.body) \cup food \cup corners :
            c[1] >= 0 /\ c[2] >= 0}

\* The rules of the resolver in their order of priority: what a rule
\* answers, and whether cell c meets it in world w.
Rules(w, c) ==
    << <<"LevelBound", ~StrictlyInside(w.level_bounds, c)>>,
       <<"SnakeHead", c = w.snake.body[1]>>,
       <<"SnakeTail", c \in BehindHead(w.snake.body)>>,
       <<"Apple", w.apple.pos = <<c>> >> >>

\* The answer of the first rule that c meets and that does not answer the
\* requester itself; the empty tuple when there is none.
FirstRule(w, id, c) ==
    LET rules == Rules(w, c)
        met == {i \in 1 .. Len(rules) : rules[i][2] /\ rules[i][1] # id}
    IN  IF met = {} THEN <<>>
        ELSE <<rules[CHOOSE i \in met : \A j \in met : i <= j][1]>>

C13_NeverItself ==
    \A id \in ObjectId : \A c \in Probes(world) :
        check_collision(world, id, c[1], c[2]) # <<id>>

\* Food lies on a free cell, and each of the four requesters asks about a
\* cell of its own: the head about the head's cell, the tail about the
\* last segment's, the level about a corner, the food about the food cell.
C13_Witness ==
    /\ last.op = "apple_update"
    /\ world.apple.pos # <<>>
    /\ world.apple.pos[1] \notin Cells(world.snake.body)
    /\ check_collision(world, "Apple", world.apple.pos[1][1],
                       world.apple.pos[1][2]) = <<>>
    /\ check_collision(world, "SnakeHead", world.snake.body[1][1],
                       world.snake.body[1][2]) = <<>>
    /\ check_collision(world, "SnakeTail",
                       world.snake.body[Len(world.snake.body)][1],
                       world.snake.body[Len(world.snake.body)][2]) = <<>>
    /\ check_collision(world, "LevelBound", world.level_bounds.x,
                       world.level_bounds.y) = <<>>

(***************************************************************************)
(* C14.  The game starts in Play, and its state changes in these ways      *)
(* only.  A tick that polls a window-close event ends in Quit, whatever    *)
(* the state was, and updates neither snake nor food.  Otherwise a tick    *)
(* begun in Play ends in GameOver when the snake is dead at its end (so    *)
(* in the very tick the snake dies) and in Play when it is not, whatever   *)
(* Escape does; a tick begun in GameOver ends in Quit when Escape has a    *)
(* front edge and in GameOver when it has not, and leaves the world alone. *)
(* Menu and Pause are never entered, GameOver never leads back to Play, a  *)
(* game in Play has a live snake, and no tick begins in Quit: the loop has *)
(* exited.                                                                 *)
(***************************************************************************)
C14_GameState ==
    /\ state = "Play"
    /\ [][/\ state # "Quit"
          /\ state = "Play" => ~world.snake.dead
          /\ state' \in {"Play", "GameOver", "Quit"}
          /\ closed' => (state' = "Quit" /\ world' = world)
          /\ (~closed' /\ state = "Play") =>
                 state' = IF world'.snake.dead THEN "GameOver" ELSE "Play"
          /\ (~closed' /\ state = "GameOver") =>
                 /\ state' = IF "key_escape" \in last'.edges
                              THEN "Quit" ELSE "GameOver"
                 /\ world' = world]_vars

\* The snake died, the game was over, and a later tick saw Escape pressed:
\* Quit, without any window-close event.
C14_Witness ==
    /\ state = "Quit"
    /\ ~closed
    /\ world.snake.dead
    /\ "key_escape" \in last.edges

(***************************************************************************)
(* C15.  Whenever Apple::update is about to call gen_pos on a live snake   *)
(* (no food placed yet, or the head on the food cell), some cell strictly  *)
(* inside the level holds no segment of the snake, so that the rejection   *)
(* loop of gen_pos can return.                                             *)
(***************************************************************************)
C15_FreeCellForFood ==
    (/\ ~world.snake.dead
     /\ \/ world.apple.pos = <<>>
        \/ world.apple.pos = <<world.snake.body[1]>>) =>
        \E x \in world.level_bounds.x .. (world.level_bounds.x + world.level_bounds.width) :
            \E y \in world.level_bounds.y .. (world.level_bounds.y + world.level_bounds.height) :
                /\ StrictlyInside(world.level_bounds, <<x, y>>)
                /\ <<x, y>> \notin Cells(world.snake.body)

(***************************************************************************)
(* C16.  For each heading d the snake has (pending or committed) and every *)
(* direction e: d.cw().ccw() = d = d.ccw().cw(); d.is_opposite(e) exactly  *)
(* when e = d.cw().cw(); d.is_opposite(e) = e.is_opposite(d); and not      *)
(* d.is_opposite(d).  The rotations are computed on u32 with wrap-around:  *)
(* for Up, 0 - 1 is 2^32 - 1 (both halves 2^16 - 1), which is 3 modulo 4.  *)
(***************************************************************************)
C16_DirectionAlgebra ==
    \A d \in {world.snake.direction, world.snake.prev_direction} :
        /\ ccw(cw(d)) = d
        /\ cw(ccw(d)) = d
        /\ ~is_opposite(d, d)
        /\ \A e \in Direction :
               /\ is_opposite(d, e) <=> (e = cw(cw(d)))
               /\ is_opposite(d, e) <=> is_opposite(e, d)
        /\ (d = "Up" =>
               /\ overflowing_sub(U32FromDirection(d), U32Of(1))
                      = [hi |-> Half - 1, lo |-> Half - 1]
               /\ ccw(d) = "Left")

\* The pending heading is Up, the direction whose ccw() wraps below 0, while
\* the committed heading is still Right.
C16_Witness ==
    /\ last.op = "move_up"
    /\ world.snake.direction = "Up"
    /\ world.snake.prev_direction = "Right"
    /\ ccw(world.snake.direction) = "Left"
    /\ cw(ccw(world.snake.direction)) = "Up"
    /\ is_opposite(world.snake.direction, "Down")

C18_SegmentsInside ==
    /\ \A i \in 1 .. Len(world.snake.body) :
           /\ StrictlyInside(world.level_bounds, world.snake.body[i])
           /\ world.level_bounds = [x |-> 0, y |-> 0, width |-> 30, height |-> 20] =>
                  /\ world.snake.body[i][1] \in 1 .. 28
                  /\ world.snake.body[i][2] \in 1 .. 18
    /\ last.fired =>
           /\ last.cand[1] >= 0
           /\ last.cand[2] >= 0
           /\ last.cand[1] <= world.level_bounds.x + world.level_bounds.width - 1
           /\ last.cand[2] <= world.level_bounds.y + world.level_bounds.height - 1

\* The snake went up to row 1, next to the top wall, then left along it and
\* down again: alive, with segments on row 1.
C18_Witness ==
    /\ last.op = "update"
    /\ last.fired
    /\ ~world.snake.dead
    /\ world.snake.body[1] = <<9, 2>>
    /\ world.snake.body[2] = <<9, 1>>
    /\ world.snake.body[3] = <<10, 1>>

(***************************************************************************)
(* C19.  At the end of every logic tick of the game loop (and before the   *)
(* first) the segments of the snake lie on pairwise distinct cells: the    *)
(* head shares its cell with no other segment, and the copy of the last    *)
(* segment that growth appends is gone by the end of the same move.        *)
(***************************************************************************)
C19_SegmentsDistinct ==
    /\ \A i, j \in 1 .. Len(world.snake.body) :
           i # j => world.snake.body[i] # world.snake.body[j]
    /\ world.snake.body[1] \notin BehindHead(world.snake.body)

\* The tick in which the snake ate: nine segments on nine cells, the last
\* two apart again.
C19_Witness ==
    /\ last.op = "tick"
    /\ last.hit = <<"Apple">>
    /\ Len(world.snake.body) = 9
    /\ Cardinality(Cells(world.snake.body)) = 9
    /\ world.snake.body[8] # world.snake.body[9]

(***************************************************************************)
(* C20.  Through any sequence of logic ticks the body of the snake is      *)
(* never empty, no tick makes it shorter, and its length is 8 plus the     *)
(* number of food items eaten so far.                                      *)
(***************************************************************************)
C20_Length ==
    /\ Len(world.snake.body) = 8
    /\ [][/\ Len(world'.snake.body) >= 1
          /\ Len(world'.snake.body) >= Len(world.snake.body)
          /\ Len(world'.snake.body) = 8 + eaten']_vars

\* Two food items eaten, ten segments.
C20_Witness ==
    /\ last.op = "tick"
    /\ eaten = 2
    /\ Len(world.snake.body) = 10
    /\ ~world.snake.dead

=============================================================================
